---- MODULE Spec2Model ----
(***************************************************************************)
(* Model of the batched, cancellable classification run of the image       *)
(* sorter: ClassificationThread.run / process_image / stop, in the two     *)
(* variants the repository holds (classification.py and ml.py), together   *)
(* with the worker pool (concurrent.futures.ThreadPoolExecutor) each batch *)
(* is run on.                                                              *)
(***************************************************************************)
EXTENDS Integers, Sequences, FiniteSets, TLC

\* ---------------------------------------------------------------- bounds
MaxImages == 5          \* at most this many discovered image files
MaxBatch == 3           \* batch_size ranges over 1..MaxBatch
MaxUiImages == 3        \* images per run when the main window is modelled too
MaxFiles == 2           \* at most this many files on disk (glob loop)
MaxFolders == 2         \* at most this many entries in input_folders

\* ------------------------------------------------------ program constants
DefaultCpuCount == 4    \* "os.cpu_count() or 4"
WorkerCap == 8          \* "min(..., 8)"

\* os.cpu_count() as the machine reports it; 0 stands for None
CpuCounts == {0, 1, 2, 16}

\* the two definitions of ClassificationThread in the repository
Variants == {"classification", "ml"}

VARIABLES
    variant,          \* which ClassificationThread definition runs
    max_workers,      \* self.max_workers
    batch_size,       \* self.batch_size
    is_running,       \* self.is_running
    pc,               \* position of the run thread inside run()
    image_files,      \* image_files, the de-duplicated list of paths
    total_files,      \* total_files
    processed_count,  \* processed_count (processed in ml.py)
    i,                \* loop variable of "for i in range(0, total_files, batch_size)"
    batch_files,      \* batch_files
    batch_results,    \* batch_results
    task,             \* per image: state of its future / process_image call
    yielded,          \* futures as_completed has handed to the drain loop
    cancel_idx,       \* position of "for f in future_to_img_path: f.cancel()"
    emit_idx,         \* position of "for result in batch_results"
    events,           \* every signal emitted so far, in emission order
    batches,          \* history: the batches formed so far, in order
    setup_failure,    \* history: the setup step that raised, or "none"
    stop_mark,        \* history: what had happened when stop() was called
    \* -- inside load_model_safely
    load_first,       \* what the standard load_model call does
    load_retry,       \* what the load_model call with custom_objects does
    load_pc,          \* position inside load_model_safely
    load_log,         \* history: the load_model calls made, in order
    load_error,       \* the exception load_model_safely lets out, if any
    \* -- inside the glob loop of run()
    fs,               \* the image and other files on disk
    missing,          \* the folders that do not exist or cannot be read
    input_folders,    \* self.input_folders
    folder_idx,       \* position of "for folder in self.input_folders"
    globbed,          \* image_files before list(set(...)), duplicates included
    \* -- the main window of main.py
    ui_pc,            \* where the UI thread is: event loop, or blocked in wait()
    handled,          \* how many of the queued signals the UI thread has handled
    status,           \* statusBar().currentMessage(), by kind
    classify_enabled, \* classify_button.isEnabled()
    cancel_enabled,   \* cancel_button.isEnabled()
    thread_ref,       \* self.classification_thread is not None
    total_processed,  \* self.total_processed
    dialogs,          \* open QMessageBox.critical dialogs of show_error
    finished_calls,   \* history: executions of classification_finished
    cancel_done,      \* history: cancel_classification stopped this run
    \* -- the recent-paths list of the main window
    recent_paths,     \* the list stored under "recent/paths" in the settings
    calls,            \* history: add_to_recent_files calls made
    stamp,            \* history: per path, when it was last added
    last_arg,         \* history: the argument of the last call
    prev_paths,       \* history: the stored list before the last call
    \* -- inside ThemeManager._adjust_color
    hex_color,        \* the hex_color argument, character by character
    brightness_pct,   \* self.brightness
    adjusted,         \* what _adjust_color returned for hex_color at percent
    seen,             \* history: per brightness applied so far, the channels returned
    \* -- the output folder of a run
    labels,           \* the lines of the label file, labels once read
    out_dirs,         \* the class folders that exist under self.output_folder
    src_path,         \* per image of image_files: its folder and its basename
    saved,            \* history: the img.save calls that succeeded
    \* -- the ThemeManager and the BrightnessControl
    dark_detect,      \* DARKDETECT_AVAILABLE
    system_dark,      \* what isDark() returns
    mode_setting,     \* the stored value of "theme/mode"
    chosen_setting,   \* the stored value of "theme/chosen_mode"
    brightness_setting, \* the stored value of "theme/brightness"
    current_theme,    \* self.current_theme
    theme_brightness, \* self.brightness of the ThemeManager
    theme_pc,         \* no ThemeManager yet, or constructed
    settings_open,    \* a SettingsDialog with its BrightnessControl exists
    slider_value,     \* self.slider.value()
    last_op,          \* history: the last operation
    prev_value,       \* history: the slider value before the last button click
    mode_before,      \* history: the stored mode before the last set_brightness
    passed            \* history: the value the last operation passed to set_brightness

\* the state of load_model_safely
loaderVars == << load_first, load_retry, load_pc, load_log, load_error >>

\* the state of the glob loop
discoveryVars == << fs, missing, input_folders, folder_idx, globbed >>

\* the state of the main window
uiVars == << ui_pc, handled, status, classify_enabled, cancel_enabled,
             thread_ref, total_processed, dialogs, finished_calls,
             cancel_done >>

\* the state of the recent-paths list
recentVars == << recent_paths, calls, stamp, last_arg, prev_paths >>

\* the state of a colour adjustment
colorVars == << hex_color, brightness_pct, adjusted, seen >>

\* the state of the output folder
outputVars == << labels, out_dirs, src_path, saved >>

\* the state of the theme and of the brightness slider
themeVars == << dark_detect, system_dark, mode_setting, chosen_setting,
               brightness_setting, current_theme, theme_brightness,
               theme_pc, settings_open, slider_value, last_op, prev_value,
               mode_before, passed >>

\* everything outside ClassificationThread
sideVars == << loaderVars, discoveryVars, uiVars, recentVars, colorVars,
              outputVars, themeVars >>

\* the state of ClassificationThread and of its pool
runVars == << variant, max_workers, batch_size, is_running, pc, image_files,
              total_files, processed_count, i, batch_files, batch_results,
              task, yielded, cancel_idx, emit_idx, events, batches,
              setup_failure, stop_mark >>

vars == << variant, max_workers, batch_size, is_running, pc, image_files,
           total_files, processed_count, i, batch_files, batch_results, task,
           yielded, cancel_idx, emit_idx, events, batches, setup_failure,
           stop_mark, load_first, load_retry, load_pc, load_log, load_error,
           fs, missing, input_folders, folder_idx, globbed,
           ui_pc, handled, status, classify_enabled, cancel_enabled,
           thread_ref, total_processed, dialogs, finished_calls,
           cancel_done,
           recent_paths, calls, stamp, last_arg, prev_paths,
           hex_color, brightness_pct, adjusted, seen,
           labels, out_dirs, src_path, saved,
           dark_detect, system_dark, mode_setting, chosen_setting,
           brightness_setting, current_theme, theme_brightness, theme_pc,
           settings_open, slider_value, last_op, prev_value, mode_before,
           passed >>

\* ---------------------------------------------------------------- helpers
Min(a, b) == IF a < b THEN a ELSE b

Range(s) == { s[n] : n \in 1..Len(s) }

\* the ascending sequence lo, lo+1, ..., hi
RECURSIVE Upto(_, _)
Upto(lo, hi) == IF lo > hi THEN << >> ELSE << lo >> \o Upto(lo + 1, hi)

\* Python slice s[a : b] over a 0-based list
Slice(s, a, b) == SubSeq(s, a + 1, Min(b, Len(s)))

Ev(type, img, processed, total) ==
    [type |-> type, img |-> img, processed |-> processed, total |-> total]

EvResult(img)      == Ev("result_update", img, 0, 0)
\* img of a progress_update is the image whose result it counts (the signal
\* itself carries only the two numbers)
EvProgress(img, p, t) == Ev("progress_update", img, p, t)
EvImageError(img)  == Ev("error", img, 0, 0)
EvSetupError       == Ev("error", 0, 0, 0)
EvFinished         == Ev("finished", 0, 0, 0)

EventsOf(type) == { n \in 1..Len(events) : events[n].type = type }

\* ------------------------------------------------------------ __init__
\* self.max_workers = min(os.cpu_count() or 4, 8)
ComputeMaxWorkers(cpu) ==
    Min(IF cpu = 0 THEN DefaultCpuCount ELSE cpu, WorkerCap)

\* ------------------------------------------------------ load_model_safely
\* One call of tf.keras.models.load_model: it returns, or raises an error
\* whose message does or does not contain each of the two substrings.
\* kind tells the returned model from the exceptions, and two exceptions
\* with the same substrings from each other.
ErrorKinds == {"ValueError", "OSError"}
LoadOutcomes ==
    { [ok |-> TRUE, hasLayer |-> FALSE, hasGroups |-> FALSE, kind |-> "model"] }
    \cup
    { [ok |-> FALSE, hasLayer |-> l, hasGroups |-> g, kind |-> k] :
        l, g \in BOOLEAN, k \in ErrorKinds }
NoOutcome == [ok |-> FALSE, hasLayer |-> FALSE, hasGroups |-> FALSE, kind |-> "none"]

\* variant: either substring alone triggers the fallback
EitherSubstring(err) == err.hasLayer \/ err.hasGroups

\* "DepthwiseConv2D" in error_str and "groups" in error_str
IsKnownDefect(err) == err.hasLayer /\ err.hasGroups

load_model_safely(first, retry) ==
    IF first.ok
    THEN [raised |-> FALSE, attempts |-> 1, error |-> first]
    ELSE IF IsKnownDefect(first)
         THEN [raised |-> ~retry.ok, attempts |-> 2, error |-> retry]
         ELSE [raised |-> TRUE, attempts |-> 1, error |-> first]

\* ------------------------------------------------------------- the pool
Unfinished == { x \in 1..total_files : task[x] \in {"pending", "running"} }
Executing  == { x \in 1..total_files : task[x] = "running" }
Completed(x) == task[x] \in {"ok", "fail", "cancelled"}

\* variant: a pool that starts a thread for every submission
PoolUnbounded(n) == TRUE

\* a worker thread exists for every submission up to max_workers, so a
\* queued work item is taken as soon as fewer than max_workers execute
PoolHasIdleWorker(n) == n < max_workers

\* work items leave the queue in submission order
NextQueued(x) ==
    /\ x \in 1..total_files
    /\ task[x] = "pending"
    /\ \A y \in 1..total_files : task[y] = "pending" => x <= y

\* variant: shutdown(wait=False)
PoolNoWait(unfinished) == TRUE

\* ThreadPoolExecutor.__exit__: shutdown(wait=True) returns once no work
\* item is queued or executing
PoolShutDown(unfinished) == unfinished = {}

\* variant: cancel() that also takes back a call that is executing
CancelInterrupts(st) == st \in {"pending", "running"}

\* Future.cancel() succeeds only on a future that has not started
Cancellable(st) == st = "pending"

\* which variant cancels the not-yet-started futures when it sees the stop
CancelsOnStop(v) == v = "classification"

\* variant: progress emitted from the drain loop in both files
ProgressAlwaysInDrain(v) == TRUE

\* which variant emits progress_update from inside the drain loop
ProgressInDrain(v) == v = "ml"

\* process_image re-raises in classification.py; in ml.py it emits the error
\* itself and returns None
RaisesToFuture(v) == v = "classification"

\* future.result() of a yielded future: a value, None, or an exception
FutureResult(v, st) ==
    IF st = "ok" THEN "value"
    ELSE IF st = "fail" /\ ~RaisesToFuture(v) THEN "none"
    ELSE "exception"

\* variant: future.result() left outside any try/except
NeverHandles(v) == FALSE

\* classification.py wraps future.result() in try/except; ml.py does not
HandlesFutureException(v) == v = "classification"

\* variant: the batch is left after its first completion
ExhaustedEarly(batch, y) == y # {}

\* the drain loop is left when as_completed has yielded every future
Exhausted(batch, y) == Range(batch) \subseteq y

\* variant: the result loop is left before its last result
ResultsDoneEarly(idx, results) == idx > Len(results) - 1

\* "for result in batch_results" has gone through the whole list
ResultsDone(idx, results) == idx > Len(results)

\* variant: a step one too large
NextStartSkips(start, step) == start + step + 1

\* range(0, total_files, batch_size): the next value of i
NextStart(start, step) == start + step

\* variant: a result counted twice
AdvanceTwice(p) == p + 2

\* processed_count += 1
Advance(p) == p + 1

\* position of a path in image_files, and the batch that position falls in
IndexOf(x) == CHOOSE n \in 1..Len(image_files) : image_files[n] = x
BatchesDone ==
    IF pc \in {"drain", "cancel", "unwind", "shutdown", "emit_check", "emit"}
    THEN Len(batches) - 1 ELSE Len(batches)
BatchNo(x) == CHOOSE b \in 1..Len(batches) : x \in Range(batches[b])

\* ---------------------------------------------------------------- Init
\* the thread object as __init__ leaves it, run() about to begin
RunInit ==
    /\ variant \in Variants
    /\ \E cpu \in CpuCounts : max_workers = ComputeMaxWorkers(cpu)
    /\ batch_size \in 1..MaxBatch
    /\ is_running = TRUE
    /\ pc = "load_model"
    /\ image_files = << >>
    /\ total_files = 0
    /\ processed_count = 0
    /\ i = 0
    /\ batch_files = << >>
    /\ batch_results = << >>
    /\ task = << >>
    /\ yielded = {}
    /\ cancel_idx = 0
    /\ emit_idx = 0
    /\ events = << >>
    /\ batches = << >>
    /\ setup_failure = "none"
    /\ stop_mark = [called |-> FALSE, done |-> 0, reported |-> FALSE,
                    executing |-> {}, succeeded |-> {}]

\* load_model_safely is not being looked into
LoaderIdle ==
    /\ load_first = NoOutcome
    /\ load_retry = NoOutcome
    /\ load_pc = "idle"
    /\ load_log = << >>
    /\ load_error = NoOutcome

\* the glob loop is not being looked into
DiscoveryIdle ==
    /\ fs = {}
    /\ missing = {}
    /\ input_folders = << >>
    /\ folder_idx = 0
    /\ globbed = << >>

\* the main window is not being looked into
UiIdle ==
    /\ ui_pc = "off"
    /\ handled = 0
    /\ status = "ready"
    /\ classify_enabled = TRUE
    /\ cancel_enabled = FALSE
    /\ thread_ref = FALSE
    /\ total_processed = 0
    /\ dialogs = 0
    /\ finished_calls = 0
    /\ cancel_done = FALSE

\* the recent-paths list is not being looked into
RecentIdle ==
    /\ recent_paths = << >>
    /\ calls = 0
    /\ stamp = << >>
    /\ last_arg = 0
    /\ prev_paths = << >>

\* no colour is being adjusted
ColorIdle ==
    /\ hex_color = << >>
    /\ brightness_pct = 100
    /\ adjusted = << >>
    /\ seen = << >>

\* no key stored in the settings
Unset == "unset"
NoBrightness == 0

\* the theme is not being looked into
ThemeIdle ==
    /\ dark_detect = FALSE
    /\ system_dark = FALSE
    /\ mode_setting = Unset
    /\ chosen_setting = Unset
    /\ brightness_setting = NoBrightness
    /\ current_theme = "dark"
    /\ theme_brightness = 100
    /\ theme_pc = "off"
    /\ settings_open = FALSE
    /\ slider_value = 0
    /\ last_op = "none"
    /\ prev_value = 0
    /\ mode_before = Unset
    /\ passed = 0

\* one class, and every image has a basename of its own
MaxAny == IF MaxImages > MaxUiImages THEN MaxImages ELSE MaxUiImages
PlainPath(x) == [dir |-> "A", name |-> x]
OutputPlain ==
    /\ labels = << "cat" >>
    /\ out_dirs = {}
    /\ src_path = [x \in 1..MaxAny |-> PlainPath(x)]
    /\ saved = {}

Init ==
    /\ RunInit
    /\ LoaderIdle
    /\ DiscoveryIdle
    /\ UiIdle
    /\ RecentIdle
    /\ ColorIdle
    /\ OutputPlain
    /\ ThemeIdle

\* ----------------------------------------------------------- run(): setup
\* variant: a failed setup step is swallowed and the run goes on
SetupStepSwallowed(ok, next) == next

\* a setup step that raises leaves the try body for the except clause
AfterSetupStep(ok, next) == IF ok THEN next ELSE "except"

\* model = load_model_safely(self.model_path)
LoadModel ==
    /\ pc = "load_model"
    /\ \E first, retry \in LoadOutcomes :
         LET ok == ~load_model_safely(first, retry).raised IN
         /\ pc' = AfterSetupStep(ok, "load_labels")
         /\ setup_failure' = IF ok THEN "none" ELSE "model"
    /\ UNCHANGED << variant, max_workers, batch_size, is_running, image_files,
                    total_files, processed_count, i, batch_files,
                    batch_results, task, yielded, cancel_idx, emit_idx,
                    events, batches, stop_mark, sideVars >>

\* with open(self.label_path, 'r') as f: labels = [...]
LoadLabels ==
    /\ pc = "load_labels"
    /\ \E readable \in BOOLEAN :
         /\ pc' = AfterSetupStep(readable, "discover")
         /\ setup_failure' = IF readable THEN "none" ELSE "labels"
    /\ UNCHANGED << variant, max_workers, batch_size, is_running, image_files,
                    total_files, processed_count, i, batch_files,
                    batch_results, task, yielded, cancel_idx, emit_idx,
                    events, batches, stop_mark, sideVars >>

\* the glob loop, image_files = list(set(image_files)), total_files,
\* processed_count = 0.  The paths are interchangeable, so the list is the
\* n distinct paths 1..n in the order the set happened to produce.
Discover ==
    /\ pc = "discover"
    /\ \E n \in 0..MaxImages :
         /\ image_files' = Upto(1, n)
         /\ total_files' = n
         /\ task' = [x \in 1..n |-> "new"]
    /\ processed_count' = 0
    /\ pc' = "make_dirs"
    /\ UNCHANGED << variant, max_workers, batch_size, is_running, i,
                    batch_files, batch_results, yielded, cancel_idx, emit_idx,
                    events, batches, setup_failure, stop_mark, sideVars >>

\* variant: only the folder of the first class is created
FirstFolderOnly(labs, k) == { labs[n] : n \in 1..Min(k, 1) }

\* the folders the makedirs loop has created after k iterations
ClassFolders(labs, k) == { labs[n] : n \in 1..k }

\* for class_name in labels: os.makedirs(class_folder, exist_ok=True)
\* -- the loop creates the folders in the order of labels; a makedirs call
\* that raises ends the loop and the try body
MakeDirs ==
    /\ pc = "make_dirs"
    /\ \E k \in 0..Len(labels) :
         LET created == k = Len(labels) IN
         /\ out_dirs' = out_dirs \cup ClassFolders(labels, k)
         /\ pc' = AfterSetupStep(created, "loop_top")
         /\ setup_failure' = IF created THEN "none" ELSE "make_dirs"
    /\ i' = 0
    /\ UNCHANGED << variant, max_workers, batch_size, is_running, image_files,
                    total_files, processed_count, batch_files, batch_results,
                    task, yielded, cancel_idx, emit_idx, events, batches,
                    stop_mark, loaderVars, discoveryVars, uiVars, recentVars,
                    colorVars, themeVars, labels, src_path, saved >>

\* ------------------------------------------------------ run(): the batches
\* for i in range(0, total_files, self.batch_size):
\*     if not self.is_running: break
LoopTop ==
    /\ pc = "loop_top"
    /\ pc' = IF i >= total_files \/ ~is_running THEN "finish" ELSE "submit"
    /\ UNCHANGED << variant, max_workers, batch_size, is_running, image_files,
                    total_files, processed_count, i, batch_files,
                    batch_results, task, yielded, cancel_idx, emit_idx,
                    events, batches, setup_failure, stop_mark, sideVars >>

\* batch_files = image_files[i : i + batch_size]; batch_results = [];
\* the executor is created and every image of the batch is submitted
Submit ==
    /\ pc = "submit"
    /\ LET batch == Slice(image_files, i, i + batch_size) IN
         /\ batch_files' = batch
         /\ task' = [x \in 1..total_files |->
                        IF x \in Range(batch) THEN "pending" ELSE task[x]]
         /\ batches' = Append(batches, batch)
    /\ batch_results' = << >>
    /\ yielded' = {}
    /\ pc' = "drain"
    /\ UNCHANGED << variant, max_workers, batch_size, is_running, image_files,
                    total_files, processed_count, i, cancel_idx, emit_idx,
                    events, setup_failure, stop_mark, sideVars >>

\* one iteration of "for future in as_completed(...)": a finished future is
\* yielded; the stop flag is read; the result is recorded or the error emitted
Drain(x) ==
    /\ pc = "drain"
    /\ x \in Range(batch_files) \ yielded
    /\ Completed(x)
    /\ IF ~is_running
       THEN /\ pc' = IF CancelsOnStop(variant) THEN "cancel" ELSE "shutdown"
            /\ cancel_idx' = 1
            /\ UNCHANGED << yielded, batch_results, processed_count, events >>
       ELSE LET r == FutureResult(variant, task[x]) IN
            /\ yielded' = yielded \cup {x}
            /\ cancel_idx' = cancel_idx
            /\ pc' = IF r = "exception" /\ ~HandlesFutureException(variant)
                     THEN "unwind" ELSE "drain"
            /\ batch_results' = IF r = "value" THEN Append(batch_results, x)
                                ELSE batch_results
            /\ processed_count' =
                 IF r = "value" /\ ProgressInDrain(variant)
                 THEN Advance(processed_count) ELSE processed_count
            /\ events' =
                 IF r = "value" /\ ProgressInDrain(variant)
                 THEN Append(events, EvProgress(x, Advance(processed_count),
                                                total_files))
                 ELSE IF r = "exception" /\ HandlesFutureException(variant)
                 THEN Append(events, EvImageError(x))
                 ELSE events
    /\ UNCHANGED << variant, max_workers, batch_size, is_running, image_files,
                    total_files, i, batch_files, task, emit_idx, batches,
                    setup_failure, stop_mark, sideVars >>

\* as_completed is exhausted: the for loop and the with block are left
DrainEnd ==
    /\ pc = "drain"
    /\ Exhausted(batch_files, yielded)
    /\ pc' = "emit_check"
    /\ emit_idx' = 1
    /\ UNCHANGED << variant, max_workers, batch_size, is_running, image_files,
                    total_files, processed_count, i, batch_files,
                    batch_results, task, yielded, cancel_idx, events, batches,
                    setup_failure, stop_mark, sideVars >>

\* variant: the loop stops after the first future
FirstCancelled(idx, futures) == idx > 1

\* "for f in future_to_img_path" has gone through every future of the batch
AllCancelled(idx, futures) == idx > Len(futures)

\* for f in future_to_img_path: f.cancel()  -- one future per step; cancel()
\* succeeds only on a future that has not started; then break
Cancel ==
    /\ pc = "cancel"
    /\ IF AllCancelled(cancel_idx, batch_files)
       THEN /\ pc' = "shutdown"
            /\ UNCHANGED << task, cancel_idx >>
       ELSE LET f == batch_files[cancel_idx] IN
            /\ task' = IF Cancellable(task[f])
                       THEN [task EXCEPT ![f] = "cancelled"] ELSE task
            /\ cancel_idx' = cancel_idx + 1
            /\ pc' = pc
    /\ UNCHANGED << variant, max_workers, batch_size, is_running, image_files,
                    total_files, processed_count, i, batch_files,
                    batch_results, yielded, emit_idx, events, batches,
                    setup_failure, stop_mark, sideVars >>

\* leaving the with block, after a break or with an exception in flight:
\* executor.shutdown(wait=True); the exception then reaches the except
\* clause of run()
Shutdown ==
    /\ pc \in {"shutdown", "unwind"}
    /\ PoolShutDown(Unfinished)
    /\ pc' = IF pc = "unwind" THEN "except" ELSE "emit_check"
    /\ emit_idx' = 1
    /\ UNCHANGED << variant, max_workers, batch_size, is_running, image_files,
                    total_files, processed_count, i, batch_files,
                    batch_results, task, yielded, cancel_idx, events, batches,
                    setup_failure, stop_mark, sideVars >>

\* for result in batch_results: if not self.is_running: break
\* (the end of the list, or the break, moves on to the next i)
EmitCheck ==
    /\ pc = "emit_check"
    /\ IF ResultsDone(emit_idx, batch_results) \/ ~is_running
       THEN /\ i' = NextStart(i, batch_size)
            /\ pc' = "loop_top"
       ELSE /\ i' = i
            /\ pc' = "emit"
    /\ UNCHANGED << variant, max_workers, batch_size, is_running, image_files,
                    total_files, processed_count, batch_files, batch_results,
                    task, yielded, cancel_idx, emit_idx, events, batches,
                    setup_failure, stop_mark, sideVars >>

\* the body of the result loop: result_update.emit(...), and in
\* classification.py processed_count += 1; progress_update.emit(...)
Emit ==
    /\ pc = "emit"
    /\ LET x == batch_results[emit_idx] IN
       IF ProgressInDrain(variant)
       THEN /\ events' = Append(events, EvResult(x))
            /\ processed_count' = processed_count
       ELSE /\ events' = events \o << EvResult(x),
                                      EvProgress(x, Advance(processed_count),
                                                 total_files) >>
            /\ processed_count' = Advance(processed_count)
    /\ emit_idx' = emit_idx + 1
    /\ pc' = "emit_check"
    /\ UNCHANGED << variant, max_workers, batch_size, is_running, image_files,
                    total_files, i, batch_files, batch_results, task, yielded,
                    cancel_idx, batches, setup_failure, stop_mark, sideVars >>

\* self.finished.emit() at the end of the try body
Finish ==
    /\ pc = "finish"
    /\ events' = Append(events, EvFinished)
    /\ pc' = "done"
    /\ UNCHANGED << variant, max_workers, batch_size, is_running, image_files,
                    total_files, processed_count, i, batch_files,
                    batch_results, task, yielded, cancel_idx, emit_idx,
                    batches, setup_failure, stop_mark, sideVars >>

\* except Exception as e: self.error.emit(...); self.finished.emit()
SetupErrorEvents == << EvSetupError, EvFinished >>

SetupError ==
    /\ pc = "except"
    /\ events' = events \o SetupErrorEvents
    /\ pc' = "done"
    /\ UNCHANGED << variant, max_workers, batch_size, is_running, image_files,
                    total_files, processed_count, i, batch_files,
                    batch_results, task, yielded, cancel_idx, emit_idx,
                    batches, setup_failure, stop_mark, sideVars >>

\* ------------------------------------------------------- the pool's workers
\* a worker takes the next queued work item and calls process_image
StartTask(x) ==
    /\ NextQueued(x)
    /\ PoolHasIdleWorker(Cardinality(Executing))
    /\ task' = [task EXCEPT ![x] = "running"]
    /\ UNCHANGED << variant, max_workers, batch_size, is_running, pc,
                    image_files, total_files, processed_count, i, batch_files,
                    batch_results, yielded, cancel_idx, emit_idx, events,
                    batches, setup_failure, stop_mark, sideVars >>

\* process_image stopped before img.save: the image cannot be opened, the
\* prediction fails, or the model has more outputs than there are labels
NoClass == "none"

\* os.path.join(os.path.join(self.output_folder, predicted_class),
\*              os.path.basename(img_path))
OutputPath(x, class) == [class |-> class, name |-> src_path[x].name]

\* process_image returns its tuple, or fails: classification.py re-raises
\* into the future, ml.py emits error from the worker and returns None.
\* predicted_class is one of labels; img.save(output_path) creates no folder
\* and raises when the class folder is missing
FinishTask(x) ==
    /\ x \in 1..total_files
    /\ task[x] = "running"
    /\ \E class \in Range(labels) \cup {NoClass} :
         LET ok == class # NoClass /\ class \in out_dirs IN
         /\ task' = [task EXCEPT ![x] = IF ok THEN "ok" ELSE "fail"]
         /\ saved' = IF ok THEN saved \cup {[img |-> x, class |-> class]}
                     ELSE saved
         /\ events' = IF ~ok /\ ~RaisesToFuture(variant)
                      THEN Append(events, EvImageError(x)) ELSE events
    /\ UNCHANGED << variant, max_workers, batch_size, is_running, pc,
                    image_files, total_files, processed_count, i, batch_files,
                    batch_results, yielded, cancel_idx, emit_idx, batches,
                    setup_failure, stop_mark, loaderVars, discoveryVars,
                    uiVars, recentVars, colorVars, themeVars, labels,
                    out_dirs, src_path >>

\* ------------------------------------------------------------------ stop()
\* self.is_running = False, called from the UI thread while the run lasts
StopEffect ==
    /\ is_running' = FALSE
    /\ stop_mark' =
         [called |-> TRUE,
          done |-> BatchesDone,
          reported |-> \E n \in EventsOf("result_update") :
                          BatchNo(events[n].img) > BatchesDone,
          executing |-> Executing,
          succeeded |-> { x \in 1..total_files : task[x] = "ok" }]
    /\ UNCHANGED << variant, max_workers, batch_size, pc, image_files,
                    total_files, processed_count, i, batch_files,
                    batch_results, task, yielded, cancel_idx, emit_idx,
                    events, batches, setup_failure >>

\* stop() called by whoever holds the thread, at any moment of the run
Stop ==
    /\ pc # "done"
    /\ is_running
    /\ StopEffect
    /\ UNCHANGED sideVars

DrainStep == \E x \in 1..total_files : Drain(x)
StartStep == \E x \in 1..total_files : StartTask(x)
FinishStep == \E x \in 1..total_files : FinishTask(x)

Next ==
    \/ LoadModel
    \/ LoadLabels
    \/ Discover
    \/ MakeDirs
    \/ LoopTop
    \/ Submit
    \/ DrainStep
    \/ DrainEnd
    \/ Cancel
    \/ Shutdown
    \/ EmitCheck
    \/ Emit
    \/ Finish
    \/ SetupError
    \/ StartStep
    \/ FinishStep
    \/ Stop

Spec == Init /\ [][Next]_vars

TypeOK ==
    /\ pc \in {"load_model", "load_labels", "discover", "make_dirs",
               "loop_top", "submit", "drain", "cancel", "shutdown", "unwind",
               "emit_check", "emit", "finish", "except", "done"}
    /\ processed_count \in 0..total_files

\* ===================================================================
\* load_model_safely, statement by statement, and the run that called it
\* ===================================================================
\* variant: a failed fallback load is tried again
RetryAgain(ok) == IF ok THEN "returned" ELSE "retry"

\* the custom load returns its model, or its exception leaves the function
AfterRetry(ok) == IF ok THEN "returned" ELSE "raised"

LoadCall(custom, outcome) == [custom |-> custom, outcome |-> outcome]

\* run() has just called load_model_safely(self.model_path)
InitLoader ==
    /\ RunInit
    /\ load_first \in LoadOutcomes
    /\ load_retry \in LoadOutcomes
    /\ load_pc = "first"
    /\ load_log = << >>
    /\ load_error = NoOutcome
    /\ DiscoveryIdle
    /\ UiIdle
    /\ RecentIdle
    /\ ColorIdle
    /\ OutputPlain
    /\ ThemeIdle

\* try: model = tf.keras.models.load_model(model_path, compile=False)
LoaderFirst ==
    /\ load_pc = "first"
    /\ load_log' = Append(load_log, LoadCall(FALSE, load_first))
    /\ load_pc' = IF load_first.ok THEN "returned" ELSE "check"
    /\ UNCHANGED << load_first, load_retry, load_error, runVars,
                    discoveryVars, uiVars, recentVars, colorVars, outputVars,
                    themeVars >>

\* except Exception as e: if "DepthwiseConv2D" in error_str and "groups" in
\* error_str: ... else: raise
LoaderCheck ==
    /\ load_pc = "check"
    /\ IF IsKnownDefect(load_first)
       THEN /\ load_pc' = "retry"
            /\ load_error' = load_error
       ELSE /\ load_pc' = "raised"
            /\ load_error' = load_first
    /\ UNCHANGED << load_first, load_retry, load_log, runVars,
                    discoveryVars, uiVars, recentVars, colorVars, outputVars,
                    themeVars >>

\* model = tf.keras.models.load_model(model_path, custom_objects=..., ...)
LoaderRetry ==
    /\ load_pc = "retry"
    /\ load_log' = Append(load_log, LoadCall(TRUE, load_retry))
    /\ load_pc' = AfterRetry(load_retry.ok)
    /\ load_error' = IF load_retry.ok THEN load_error ELSE load_retry
    /\ UNCHANGED << load_first, load_retry, runVars, discoveryVars,
                    uiVars, recentVars, colorVars, outputVars, themeVars >>

\* back in run(): the model is bound, or the exception reaches the except
\* clause
LoaderReturn ==
    /\ pc = "load_model"
    /\ load_pc \in {"returned", "raised"}
    /\ pc' = AfterSetupStep(load_pc = "returned", "load_labels")
    /\ setup_failure' = IF load_pc = "returned" THEN "none" ELSE "model"
    /\ UNCHANGED << variant, max_workers, batch_size, is_running, image_files,
                    total_files, processed_count, i, batch_files,
                    batch_results, task, yielded, cancel_idx, emit_idx,
                    events, batches, stop_mark, sideVars >>

NextLoader ==
    \/ LoaderFirst
    \/ LoaderCheck
    \/ LoaderRetry
    \/ LoaderReturn
    \/ LoadLabels
    \/ SetupError
    \/ Stop

SpecLoader == InitLoader /\ [][NextLoader]_vars

\* the statements agree with load_model_safely taken as one function
LoaderAgrees ==
    load_pc \in {"returned", "raised"} =>
        LET r == load_model_safely(load_first, load_retry) IN
        /\ r.raised = (load_pc = "raised")
        /\ r.attempts = Len(load_log)
        /\ r.raised => r.error = load_error

\* ===================================================================
\* The glob loop of run(), folder by folder, on a small directory tree
\* ===================================================================
\* the folders a user can select: "A/sub" lies inside "A"
Dirs == {"A", "A/sub", "B"}

\* the folders "folder/**" reaches: the folder itself and what lies below it
Under(d) == IF d = "A" THEN {"A", "A/sub"} ELSE {d}

\* for ext in ['*.jpg', '*.jpeg', '*.png', '*.bmp']
Extensions == << "jpg", "jpeg", "png", "bmp" >>

\* a file is its path: the folder it lies in and its name "x.<ext>"
DiskExts == {"jpg", "bmp", "txt"}
FileUniverse == [dir : Dirs, ext : DiskExts]

\* some fixed listing order of a set of paths
RECURSIVE ListOf(_)
ListOf(S) ==
    IF S = {} THEN << >>
    ELSE LET f == CHOOSE g \in S : TRUE IN << f >> \o ListOf(S \ {f})

\* glob.glob(os.path.join(folder, ext)) and, with recursive,
\* glob.glob(os.path.join(folder, '**', ext), recursive=True); a folder that
\* does not exist or cannot be read matches nothing and raises nothing
Glob(folder, ext, recursive) ==
    ListOf({ f \in fs :
               /\ folder \notin missing
               /\ f.ext = ext
               /\ IF recursive THEN f.dir \in Under(folder)
                               ELSE f.dir = folder })

\* the two extend() calls of one extension
RECURSIVE GlobExtensions(_, _)
GlobExtensions(folder, n) ==
    IF n > Len(Extensions) THEN << >>
    ELSE Glob(folder, Extensions[n], FALSE)
         \o Glob(folder, Extensions[n], TRUE)
         \o GlobExtensions(folder, n + 1)

\* variant: the list is kept as globbed
KeepDuplicates(raw) == raw

\* image_files = list(set(image_files))
RemoveDuplicates(raw) == ListOf(Range(raw))

\* the glob loop reads neither batch_size nor max_workers: one value each
InitDiscovery ==
    /\ RunInit
    /\ batch_size = 1
    /\ max_workers = ComputeMaxWorkers(0)
    /\ LoaderIdle
    /\ fs \in { F \in SUBSET FileUniverse : Cardinality(F) <= MaxFiles }
    /\ missing \in SUBSET Dirs
    /\ "A" \in missing => "A/sub" \in missing
    /\ \A f \in fs : f.dir \notin missing
    /\ \E n \in 1..MaxFolders : input_folders \in [1..n -> Dirs]
    /\ folder_idx = 1
    /\ globbed = << >>
    /\ UiIdle
    /\ RecentIdle
    /\ ColorIdle
    /\ OutputPlain
    /\ ThemeIdle

\* the setup steps before the glob loop succeed
SkipToDiscover ==
    /\ pc = "load_model"
    /\ input_folders # << >>
    /\ pc' = "discover"
    /\ UNCHANGED << variant, max_workers, batch_size, is_running, image_files,
                    total_files, processed_count, i, batch_files,
                    batch_results, task, yielded, cancel_idx, emit_idx,
                    events, batches, setup_failure, stop_mark, sideVars >>

\* one iteration of "for folder in self.input_folders"
GlobFolder ==
    /\ pc = "discover"
    /\ folder_idx <= Len(input_folders)
    /\ globbed' = globbed \o GlobExtensions(input_folders[folder_idx], 1)
    /\ folder_idx' = folder_idx + 1
    /\ UNCHANGED << fs, missing, input_folders, loaderVars, runVars,
                    uiVars, recentVars, colorVars, outputVars, themeVars >>

\* image_files = list(set(image_files)); total_files = len(image_files);
\* processed_count = 0
DiscoverFiles ==
    /\ pc = "discover"
    /\ folder_idx > Len(input_folders)
    /\ image_files' = RemoveDuplicates(globbed)
    /\ total_files' = Len(RemoveDuplicates(globbed))
    /\ task' = [x \in 1..Len(RemoveDuplicates(globbed)) |-> "new"]
    /\ processed_count' = 0
    /\ pc' = "make_dirs"
    /\ UNCHANGED << variant, max_workers, batch_size, is_running, i,
                    batch_files, batch_results, yielded, cancel_idx, emit_idx,
                    events, batches, setup_failure, stop_mark, sideVars >>

NextDiscovery ==
    \/ SkipToDiscover
    \/ GlobFolder
    \/ DiscoverFiles
    \/ MakeDirs
    \/ LoopTop
    \/ Finish
    \/ SetupError
    \/ Stop

SpecDiscovery == InitDiscovery /\ [][NextDiscovery]_vars

\* the paths the patterns of the selected folders match, taken as a set
Matched ==
    { f \in fs : /\ f.ext \in Range(Extensions)
                 /\ \E n \in 1..Len(input_folders) :
                       /\ input_folders[n] \notin missing
                       /\ f.dir \in Under(input_folders[n]) }
Discovered == pc \in {"make_dirs", "loop_top", "submit", "finish", "except",
                      "done"}

\* ===================================================================
\* The main window of main.py around one run of ClassificationThread
\* ===================================================================
\* the status-bar messages, by kind
StatusKinds == {"ready", "starting", "processing", "complete", "canceled",
                "error"}

\* start_classification has validated the inputs, shown "Starting
\* classification...", created the thread, connected its four signals,
\* disabled the classify button, enabled the cancel button, reset
\* total_processed and called start(); main.py imports the thread class of
\* classification.py.  The machine has two cores.
InitUI ==
    /\ RunInit
    /\ variant = "classification"
    /\ max_workers = ComputeMaxWorkers(2)
    /\ LoaderIdle
    /\ DiscoveryIdle
    /\ ui_pc = "loop"
    /\ handled = 0
    /\ status = "starting"
    /\ classify_enabled = FALSE
    /\ cancel_enabled = TRUE
    /\ thread_ref = TRUE
    /\ total_processed = 0
    /\ dialogs = 0
    /\ finished_calls = 0
    /\ cancel_done = FALSE
    /\ RecentIdle
    /\ ColorIdle
    /\ OutputPlain
    /\ ThemeIdle

\* the glob loop as in Discover, with fewer images on disk
DiscoverFew ==
    /\ pc = "discover"
    /\ \E n \in 0..MaxUiImages :
         /\ image_files' = Upto(1, n)
         /\ total_files' = n
         /\ task' = [x \in 1..n |-> "new"]
    /\ processed_count' = 0
    /\ pc' = "make_dirs"
    /\ UNCHANGED << variant, max_workers, batch_size, is_running, i,
                    batch_files, batch_results, yielded, cancel_idx, emit_idx,
                    events, batches, setup_failure, stop_mark, sideVars >>

\* a step of the run thread or of one of its pool workers
RunStep ==
    \/ LoadModel
    \/ LoadLabels
    \/ DiscoverFew
    \/ MakeDirs
    \/ LoopTop
    \/ Submit
    \/ DrainStep
    \/ DrainEnd
    \/ Cancel
    \/ Shutdown
    \/ EmitCheck
    \/ Emit
    \/ Finish
    \/ SetupError
    \/ StartStep
    \/ FinishStep

\* variant: wait() that returns only once the finished signal was delivered
WaitsForDelivery(p, ran) == p = "done" /\ ran > 0

\* QThread.wait() returns when run() has returned
ThreadFinished(p, ran) == p = "done"

\* the signal at the head of the UI thread's event queue; the connections
\* cross threads, so every emit is queued and handled in emission order
Queued == events[handled + 1]
CanHandle(type) ==
    /\ ui_pc = "loop"
    /\ handled < Len(events)
    /\ Queued.type = type

\* cancel_classification up to wait(): the cancel button is clicked while
\* the thread exists and isRunning(); stop() is called and the UI thread
\* blocks in wait().  A modal error dialog keeps clicks from the button.
CancelClicked ==
    /\ ui_pc = "loop"
    /\ dialogs = 0
    /\ cancel_enabled
    /\ thread_ref
    /\ pc # "done"
    /\ StopEffect
    /\ ui_pc' = "waiting"
    /\ cancel_done' = TRUE
    /\ UNCHANGED << handled, status, classify_enabled, cancel_enabled,
                    thread_ref, total_processed, dialogs, finished_calls,
                    loaderVars, discoveryVars, recentVars, colorVars,
                    outputVars, themeVars >>

\* variant: cancel_classification calls the handler itself in both files
AlwaysCallsHandler(v) == TRUE

\* ml.py calls classification_finished() right after wait(); main.py leaves
\* it to the finished signal
CallsHandlerOnCancel(v) == v = "ml"

\* main.py's classification_finished leaves the cancellation message alone;
\* ml.py's does not look at the current message
KeepsCancelMessage(v) == v = "classification"

\* self.classification_thread = None while signals of that thread are still
\* queued: the thread object may live on and the queued calls are made, or
\* it is destroyed with the last reference and the calls are discarded with
\* its connections.  The result is the number of signals counted as handled.
AfterRelease(done, emitted) == {done, emitted}

\* cancel_classification after wait(): (ml.py: classification_finished();)
\* the cancellation message is shown and add_result("", message, "") appends
\* it to the list, which leaves total_processed alone
WaitReturns ==
    /\ ui_pc = "waiting"
    /\ ThreadFinished(pc, finished_calls)
    /\ IF CallsHandlerOnCancel(variant)
       THEN /\ classify_enabled' = TRUE
            /\ cancel_enabled' = FALSE
            /\ thread_ref' = FALSE
            /\ finished_calls' = finished_calls + 1
            /\ handled' \in AfterRelease(handled, Len(events))
       ELSE UNCHANGED << classify_enabled, cancel_enabled, thread_ref,
                         finished_calls, handled >>
    /\ status' = "canceled"
    /\ ui_pc' = "loop"
    /\ UNCHANGED << total_processed, dialogs, cancel_done,
                    loaderVars, discoveryVars, runVars,
                    recentVars, colorVars, outputVars, themeVars >>

\* update_progress
HandleProgress ==
    /\ CanHandle("progress_update")
    /\ status' = "processing"
    /\ handled' = handled + 1
    /\ UNCHANGED << ui_pc, classify_enabled, cancel_enabled, thread_ref,
                    total_processed, dialogs, finished_calls, cancel_done,
                    loaderVars, discoveryVars, runVars,
                    recentVars, colorVars, outputVars, themeVars >>

\* add_result with a file path
HandleResult ==
    /\ CanHandle("result_update")
    /\ total_processed' = total_processed + 1
    /\ handled' = handled + 1
    /\ UNCHANGED << ui_pc, status, classify_enabled, cancel_enabled,
                    thread_ref, dialogs, finished_calls, cancel_done,
                    loaderVars, discoveryVars, runVars,
                    recentVars, colorVars, outputVars, themeVars >>

\* show_error up to QMessageBox.critical: the modal dialog opens and runs its
\* own event loop, in which further queued signals are handled
HandleError ==
    /\ CanHandle("error")
    /\ dialogs' = dialogs + 1
    /\ handled' = handled + 1
    /\ UNCHANGED << ui_pc, status, classify_enabled, cancel_enabled,
                    thread_ref, total_processed, finished_calls, cancel_done,
                    loaderVars, discoveryVars, runVars,
                    recentVars, colorVars, outputVars, themeVars >>

\* show_error after the dialog was dismissed: the error message is shown
CloseDialog ==
    /\ ui_pc = "loop"
    /\ dialogs > 0
    /\ dialogs' = dialogs - 1
    /\ status' = "error"
    /\ UNCHANGED << ui_pc, handled, classify_enabled, cancel_enabled,
                    thread_ref, total_processed, finished_calls, cancel_done,
                    loaderVars, discoveryVars, runVars,
                    recentVars, colorVars, outputVars, themeVars >>

\* classification_finished
HandleFinished ==
    /\ CanHandle("finished")
    /\ classify_enabled' = TRUE
    /\ cancel_enabled' = FALSE
    /\ thread_ref' = FALSE
    /\ LET shown == status = "canceled" /\ KeepsCancelMessage(variant) IN
         status' = IF total_processed > 0 /\ ~shown THEN "complete"
                   ELSE IF ~shown THEN "ready"
                   ELSE status
    /\ finished_calls' = finished_calls + 1
    /\ handled' = handled + 1
    /\ UNCHANGED << ui_pc, total_processed, dialogs, cancel_done,
                    loaderVars, discoveryVars, runVars,
                    recentVars, colorVars, outputVars, themeVars >>

\* start_classification has run, in main.py or in ml.py (which defines its
\* own thread class and main window)
InitUiAny ==
    /\ RunInit
    /\ variant \in Variants
    /\ max_workers = ComputeMaxWorkers(2)
    /\ LoaderIdle
    /\ DiscoveryIdle
    /\ ui_pc = "loop"
    /\ handled = 0
    /\ status = "starting"
    /\ classify_enabled = FALSE
    /\ cancel_enabled = TRUE
    /\ thread_ref = TRUE
    /\ total_processed = 0
    /\ dialogs = 0
    /\ finished_calls = 0
    /\ cancel_done = FALSE
    /\ RecentIdle
    /\ ColorIdle
    /\ OutputPlain
    /\ ThemeIdle

UiStep ==
    \/ HandleProgress
    \/ HandleResult
    \/ HandleError
    \/ HandleFinished

NextUI ==
    \/ RunStep
    \/ CancelClicked
    \/ WaitReturns
    \/ UiStep
    \/ CloseDialog

SpecUI == InitUI /\ [][NextUI]_vars

\* the main window of either file
SpecUiAny == InitUiAny /\ [][NextUI]_vars

\* the run thread and the pool workers keep being scheduled, every started
\* process_image call ends, a wait() that can return does, and the event
\* loop keeps handling what is queued; clicks are up to the user
FairSpecUI ==
    /\ SpecUI
    /\ WF_vars(RunStep)
    /\ WF_vars(WaitReturns)
    /\ WF_vars(UiStep)

UiTypeOK ==
    /\ status \in StatusKinds
    /\ ui_pc \in {"loop", "waiting"}
    /\ handled \in 0..Len(events)

\* ===================================================================
\* add_to_recent_files of the main window (main.py and ml.py alike)
\* ===================================================================
RecentLimit == 10       \* recent_paths[:10]
EmptyPath == 0          \* the path "", for which "not path" holds
MaxPaths == 12          \* the non-empty paths are 1..MaxPaths
Overshoot == 5           \* how far outside 50..150 a value handed to the slider lies
MaxCalls == 3           \* add_to_recent_files calls per behaviour

\* list.remove(path): the list without the first occurrence of path
RemoveFirst(list, path) ==
    LET k == CHOOSE n \in 1..Len(list) :
                /\ list[n] = path
                /\ \A m \in 1..(n - 1) : list[m] # path
    IN SubSeq(list, 1, k - 1) \o SubSeq(list, k + 1, Len(list))

\* variant: the path is not looked for in the list
RemoveNothing(list, path) == list

\* if path in recent_paths: recent_paths.remove(path)
Remove(list, path) ==
    IF path \in Range(list) THEN RemoveFirst(list, path) ELSE list

\* recent_paths.insert(0, path); recent_paths = recent_paths[:10]
InsertFirst(list, path) == Slice(<< path >> \o list, 0, RecentLimit)

\* settings.value("recent/paths", []) followed by the isinstance test: what
\* is read is the stored list, or, for a stored list of one string that the
\* settings backend hands back as a plain string, not a list
ReadBack(stored, asList) == IF asList THEN stored ELSE << >>

\* the list add_to_recent_files stores
NewRecent(stored, path, asList) ==
    InsertFirst(Remove(ReadBack(stored, asList), path), path)

\* no run is being looked into
RunParked ==
    /\ RunInit
    /\ variant = "classification"
    /\ batch_size = 1
    /\ max_workers = ComputeMaxWorkers(0)

\* the settings hold a list earlier calls have stored: n distinct paths,
\* the path at index k last added at time -k
InitRecent ==
    /\ RunParked
    /\ LoaderIdle
    /\ DiscoveryIdle
    /\ UiIdle
    /\ \E n \in 0..RecentLimit : recent_paths = Upto(1, n)
    /\ calls = 0
    /\ stamp = [q \in 1..MaxPaths |-> 0 - q]
    /\ last_arg = EmptyPath
    /\ prev_paths = recent_paths
    /\ ColorIdle
    /\ OutputPlain
    /\ ThemeIdle

\* add_to_recent_files(path) with an empty path: return
AddEmptyPath ==
    /\ calls < MaxCalls
    /\ calls' = calls + 1
    /\ last_arg' = EmptyPath
    /\ prev_paths' = recent_paths
    /\ UNCHANGED << recent_paths, stamp, runVars, loaderVars, discoveryVars,
                    uiVars, colorVars, outputVars, themeVars >>

\* add_to_recent_files(path) with a path: read, remove, insert, cut, store
AddToRecentFiles ==
    /\ calls < MaxCalls
    /\ \E path \in 1..MaxPaths, asList \in BOOLEAN :
         /\ Len(recent_paths) # 1 => asList
         /\ recent_paths' = NewRecent(recent_paths, path, asList)
         /\ stamp' = [stamp EXCEPT ![path] = calls + 1]
         /\ last_arg' = path
    /\ calls' = calls + 1
    /\ prev_paths' = recent_paths
    /\ UNCHANGED << runVars, loaderVars, discoveryVars, uiVars, colorVars,
                    outputVars, themeVars >>

NextRecent ==
    \/ AddEmptyPath
    \/ AddToRecentFiles

SpecRecent == InitRecent /\ [][NextRecent]_vars

\* ===================================================================
\* ThemeManager._adjust_color: double-precision arithmetic, bit by bit
\* ===================================================================
\* A natural number of any size is the sequence of its limbs (digits to the
\* base 2^LimbBits), lowest first.  A double is [m, e], standing for
\* m * 2^e with m of at most 53 bits.
MantissaBits == 53      \* significand width of a Python float
GuardBits == 60         \* fraction bits the division keeps before rounding
LimbBits == 15          \* bits per limb
LimbBase == 2 ^ LimbBits

RECURSIVE FromNat(_)
FromNat(n) ==
    IF n = 0 THEN << >> ELSE << n % LimbBase >> \o FromNat(n \div LimbBase)

RECURSIVE ToNat(_)
ToNat(b) == IF b = << >> THEN 0 ELSE b[1] + LimbBase * ToNat(Tail(b))

\* without leading zero limbs
RECURSIVE Trim(_)
Trim(b) ==
    IF b = << >> \/ b[Len(b)] # 0 THEN b ELSE Trim(SubSeq(b, 1, Len(b) - 1))

\* bit n of the number (bit 0 the lowest), and the number of its bits
Bit(b, n) ==
    IF n \div LimbBits + 1 > Len(b) THEN 0
    ELSE (b[n \div LimbBits + 1] \div 2 ^ (n % LimbBits)) % 2
BitLen(b) ==
    IF \A n \in 0..(LimbBits * Len(b)) : Bit(b, n) = 0 THEN 0
    ELSE 1 + CHOOSE n \in 0..(LimbBits * Len(b)) :
                 /\ Bit(b, n) = 1
                 /\ \A k \in (n + 1)..(LimbBits * Len(b)) : Bit(b, k) = 0

RECURSIVE MulSmall(_, _, _)
MulSmall(b, c, carry) ==
    IF b = << >> THEN FromNat(carry)
    ELSE LET t == b[1] * c + carry
         IN << t % LimbBase >> \o MulSmall(Tail(b), c, t \div LimbBase)

RECURSIVE AddBig(_, _, _)
AddBig(x, y, carry) ==
    IF x = << >> /\ y = << >> THEN FromNat(carry)
    ELSE LET a == IF x = << >> THEN 0 ELSE x[1]
             b == IF y = << >> THEN 0 ELSE y[1]
             t == a + b + carry
         IN << t % LimbBase >> \o AddBig(IF x = << >> THEN x ELSE Tail(x),
                                         IF y = << >> THEN y ELSE Tail(y),
                                         t \div LimbBase)

\* x - y for x >= y
RECURSIVE SubBig(_, _, _)
SubBig(x, y, borrow) ==
    IF x = << >> THEN << >>
    ELSE LET b == IF y = << >> THEN 0 ELSE y[1]
             t == x[1] - b - borrow
         IN << t % LimbBase >> \o SubBig(Tail(x),
                                         IF y = << >> THEN y ELSE Tail(y),
                                         IF t < 0 THEN 1 ELSE 0)

\* quotient and remainder of a division by a small number
RECURSIVE DivSmall(_, _)
DivSmall(b, d) ==
    IF b = << >> THEN [q |-> << >>, r |-> 0]
    ELSE LET high == DivSmall(Tail(b), d)
             cur == LimbBase * high.r + b[1]
         IN [q |-> << cur \div d >> \o high.q, r |-> cur % d]

\* b * 2^k and floor(b / 2^k)
ShiftLeft(b, k) ==
    [n \in 1..(k \div LimbBits) |-> 0] \o MulSmall(b, 2 ^ (k % LimbBits), 0)
ShiftRight(b, k) ==
    DivSmall(SubSeq(b, k \div LimbBits + 1, Len(b)), 2 ^ (k % LimbBits)).q

\* the nearest double to big * 2^e (plus a little, if sticky), ties to even
Round53(big, e, sticky) ==
    LET k == BitLen(big) - MantissaBits IN
    IF k <= 0 THEN [m |-> Trim(big), e |-> e]
    ELSE LET kept == ShiftRight(big, k)
             half == Bit(big, k - 1) = 1
             rest == sticky \/ \E n \in 0..(k - 2) : Bit(big, n) = 1
             up == half /\ (rest \/ Bit(big, k) = 1)
         IN [m |-> Trim(IF up THEN AddBig(kept, << >>, 1) ELSE kept),
             e |-> e + k]

\* int(x) for x >= 0, and whether x has a fractional part
Floor(x) ==
    IF x.e >= 0 THEN ToNat(ShiftLeft(x.m, x.e))
    ELSE ToNat(Trim(ShiftRight(x.m, 0 - x.e)))
HasFraction(x) ==
    x.e < 0 /\ \E n \in 0..(0 - x.e - 1) : Bit(x.m, n) = 1

\* x < n and x > n for a double x >= 0 and an integer n >= 0
FloatLess(x, n) == Floor(x) < n
FloatGreater(x, n) == Floor(x) > n \/ (Floor(x) = n /\ HasFraction(x))

\* n / d, both converted to float
FloatDiv(n, d) ==
    LET qr == DivSmall(ShiftLeft(FromNat(n), GuardBits), d)
    IN Round53(qr.q, 0 - GuardBits, qr.r # 0)

\* n * x
FloatMul(n, x) == Round53(MulSmall(x.m, n, 0), x.e, FALSE)

\* n + x and x - n, the operands being brought to the same exponent first
Aligned(n, x) ==
    IF x.e <= 0 THEN ShiftLeft(FromNat(n), 0 - x.e) ELSE FromNat(n)
Scaled(x) == IF x.e <= 0 THEN x.m ELSE ShiftLeft(x.m, x.e)
FloatAdd(n, x) ==
    Round53(AddBig(Aligned(n, x), Scaled(x), 0), Min(x.e, 0), FALSE)
FloatSub(x, n) ==
    Round53(SubBig(Scaled(x), Aligned(n, x), 0), Min(x.e, 0), FALSE)

ChannelMax == 255

\* int(min(x, 255))
TruncMin(x) == IF FloatGreater(x, ChannelMax) THEN ChannelMax ELSE Floor(x)

\* variant: the true quotient, rounded down
ExactChannel(c, percent) ==
    IF percent < 100 THEN (c * percent) \div 100
    ELSE IF percent = 100 THEN c
    ELSE Min((100 * c + (ChannelMax - c) * (percent - 100)) \div 100,
             ChannelMax)

\* variant: the factor turned upside down
InverseFactor(percent) == FloatDiv(100, percent)

\* brightness_factor = self.brightness / 100.0
BrightnessFactor(percent) == FloatDiv(percent, 100)

\* one of r, g, b in _adjust_color
AdjustChannel(c, percent) ==
    LET brightness_factor == BrightnessFactor(percent) IN
    IF FloatLess(brightness_factor, 1)
    THEN Floor(FloatMul(c, brightness_factor))
    ELSE IF FloatGreater(brightness_factor, 1)
    THEN TruncMin(FloatAdd(c, FloatMul(ChannelMax - c,
                                       FloatSub(brightness_factor, 1))))
    ELSE c

\* ------------------------------------------- hex strings and the palette
LowerDigits == << "0", "1", "2", "3", "4", "5", "6", "7", "8", "9",
                  "a", "b", "c", "d", "e", "f" >>
UpperDigits == << "0", "1", "2", "3", "4", "5", "6", "7", "8", "9",
                  "A", "B", "C", "D", "E", "F" >>

\* int(ch, 16) of one character: either letter case is accepted
HexValue(ch) ==
    CHOOSE v \in 0..15 : LowerDigits[v + 1] = ch \/ UpperDigits[v + 1] = ch

\* hex_color.lstrip('#')
RECURSIVE LStrip(_)
LStrip(str) ==
    IF str # << >> /\ Head(str) = "#" THEN LStrip(Tail(str)) ELSE str

\* int(hex_color[i:i+2], 16) for i in (0, 2, 4)
Channels(str) ==
    LET h == LStrip(str)
    IN [k \in 1..3 |-> 16 * HexValue(h[2 * k - 1]) + HexValue(h[2 * k])]

\* variant: upper-case digits, the low one first
PadSwapped(n) == << UpperDigits[(n % 16) + 1], UpperDigits[(n \div 16) + 1] >>

\* {r:02x}
Pad2(n) == << LowerDigits[(n \div 16) + 1], LowerDigits[(n % 16) + 1] >>

\* f"#{r:02x}{g:02x}{b:02x}"
FormatHex(rgb) == << "#" >> \o Pad2(rgb[1]) \o Pad2(rgb[2]) \o Pad2(rgb[3])

\* str.lower()
LowerCase(str) ==
    [n \in 1..Len(str) |->
        IF str[n] = "#" THEN "#" ELSE LowerDigits[HexValue(str[n]) + 1]]

\* _adjust_color(hex_color, percent / 100.0)
adjust_color(str, percent) ==
    FormatHex([k \in 1..3 |-> AdjustChannel(Channels(str)[k], percent)])

\* the base colours apply_theme passes, dark and light palette
Palette ==
    { << "#", "1", "e", "1", "e", "1", "e" >>,
      << "#", "2", "d", "2", "d", "2", "d" >>,
      << "#", "3", "3", "3", "3", "3", "3" >>,
      << "#", "f", "f", "f", "f", "f", "f" >>,
      << "#", "b", "b", "b", "b", "b", "b" >>,
      << "#", "0", "0", "7", "1", "e", "3" >>,
      << "#", "0", "0", "7", "7", "E", "D" >>,
      << "#", "0", "0", "5", "B", "B", "B" >>,
      << "#", "3", "d", "3", "d", "3", "d" >>,
      << "#", "f", "5", "f", "5", "f", "7" >>,
      << "#", "e", "7", "e", "7", "e", "7" >>,
      << "#", "1", "2", "1", "2", "1", "2" >>,
      << "#", "5", "5", "5", "5", "5", "5" >>,
      << "#", "d", "1", "d", "1", "d", "1" >> }

\* further colours, so that every channel value 0..255 occurs
Spread ==
    { FormatHex(<< c, (c + 86) % 256, (c + 172) % 256 >>) : c \in 0..85 }

MinBrightness == 50
MaxBrightness == 150

\* a colour and the lowest brightness; nothing adjusted yet
InitColor ==
    /\ RunParked
    /\ LoaderIdle
    /\ DiscoveryIdle
    /\ UiIdle
    /\ RecentIdle
    /\ OutputPlain
    /\ ThemeIdle
    /\ hex_color \in Palette \cup Spread
    /\ brightness_pct = MinBrightness
    /\ adjusted = << >>
    /\ seen = << >>

\* apply_theme: the colour is adjusted at the current brightness
AdjustColor ==
    /\ hex_color # << >>
    /\ adjusted = << >>
    /\ adjusted' = adjust_color(hex_color, brightness_pct)
    /\ seen' = [p \in DOMAIN seen \cup {brightness_pct} |->
                  IF p = brightness_pct THEN Channels(adjusted')
                  ELSE seen[p]]
    /\ UNCHANGED << hex_color, brightness_pct, runVars, loaderVars,
                    discoveryVars, uiVars, recentVars, outputVars, themeVars >>

\* the brightness goes up by one percent
RaiseBrightness ==
    /\ adjusted # << >>
    /\ brightness_pct < MaxBrightness
    /\ brightness_pct' = brightness_pct + 1
    /\ adjusted' = << >>
    /\ UNCHANGED << hex_color, seen, runVars, loaderVars, discoveryVars,
                    uiVars, recentVars, outputVars, themeVars >>

NextColor ==
    \/ AdjustColor
    \/ RaiseBrightness

SpecColor == InitColor /\ [][NextColor]_vars

\* ===================================================================
\* The output folder: class folders and the files process_image saves
\* ===================================================================
\* label files: no class, one class, two classes
LabelFiles == { << >>, << "cat" >>, << "cat", "dog" >> }

\* image paths the glob loop can find under the input folders A and B; the
\* recursive pattern also finds the files of A/sub
PathList ==
    << [dir |-> "A", name |-> "x.jpg"], [dir |-> "A", name |-> "y.jpg"],
       [dir |-> "A/sub", name |-> "x.jpg"], [dir |-> "B", name |-> "x.jpg"],
       [dir |-> "B", name |-> "y.jpg"] >>

\* list(set(image_files)): distinct paths (their order does not matter here)
DistinctPaths ==
    { [x \in 1..MaxUiImages |-> PathList[f[x]]] :
        f \in { g \in [1..MaxUiImages -> 1..Len(PathList)] :
                  \A x \in 1..MaxUiImages - 1 : g[x] < g[x + 1] } }

\* a run on a machine with two cores, with its label file and the images
\* on disk
InitOutput ==
    /\ RunInit
    /\ variant = "classification"
    /\ max_workers = ComputeMaxWorkers(2)
    /\ LoaderIdle
    /\ DiscoveryIdle
    /\ UiIdle
    /\ RecentIdle
    /\ ColorIdle
    /\ labels \in LabelFiles
    /\ out_dirs = {}
    /\ src_path \in DistinctPaths
    /\ saved = {}
    /\ ThemeIdle

NextOutput ==
    \/ RunStep
    \/ Stop

SpecOutput == InitOutput /\ [][NextOutput]_vars

\* the files in the output folder
OutputFiles == { OutputPath(s.img, s.class) : s \in saved }

\* ===================================================================
\* ThemeManager (theme_manager.py) and BrightnessControl
\* (brightness_control.py), as SettingsDialog wires them together
\* ===================================================================
Max(a, b) == IF a > b THEN a ELSE b

ThemeModes == {"auto", "light", "dark"}

\* "dark" if system_is_dark else "light"
Detected(dark) == IF dark THEN "dark" ELSE "light"

\* default_theme_mode of load_settings
DefaultMode == IF dark_detect THEN "auto" ELSE "dark"

\* self.settings.value("theme/mode", default_theme_mode)
StoredMode == IF mode_setting = Unset THEN DefaultMode ELSE mode_setting

\* load_settings: the theme it leaves in self.current_theme
LoadedTheme ==
    IF StoredMode = "auto" /\ dark_detect THEN Detected(system_dark)
    ELSE IF StoredMode \in {"light", "dark"} THEN StoredMode
    ELSE "dark"

\* load_settings: the brightness it leaves in self.brightness
LoadedBrightness ==
    IF brightness_setting = NoBrightness THEN 100 ELSE brightness_setting

\* detect_system_theme: it does not look at the stored mode
DetectSystemTheme(cur) == IF dark_detect THEN Detected(system_dark) ELSE cur

\* save_settings: the value it stores under "theme/mode", given the stored
\* "theme/chosen_mode" and self.current_theme
SavedMode(chosen, cur) ==
    LET chosen_mode == IF chosen = Unset THEN cur ELSE chosen IN
    IF dark_detect /\ chosen_mode = "auto" THEN "auto" ELSE cur

\* variant: a slider that takes any value
Unclamped(v) == v

\* QSlider.setValue keeps the value between minimum() and maximum()
Clamp(v) == Max(MinBrightness, Min(v, MaxBrightness))

\* the application is about to start for the first time: nothing is stored
InitTheme ==
    /\ RunParked
    /\ LoaderIdle
    /\ DiscoveryIdle
    /\ UiIdle
    /\ RecentIdle
    /\ ColorIdle
    /\ OutputPlain
    /\ dark_detect \in BOOLEAN
    /\ system_dark \in BOOLEAN
    /\ mode_setting = Unset
    /\ chosen_setting = Unset
    /\ brightness_setting = NoBrightness
    /\ current_theme = "dark"
    /\ theme_brightness = 100
    /\ theme_pc = "new"
    /\ settings_open = FALSE
    /\ slider_value = 0
    /\ last_op = "none"
    /\ prev_value = 0
    /\ mode_before = Unset
    /\ passed = 0

\* ThemeManager.__init__: load_settings(), then detect_system_theme() when
\* darkdetect is there, then apply_theme()
Construct ==
    /\ theme_pc = "new"
    /\ current_theme' = DetectSystemTheme(LoadedTheme)
    /\ theme_brightness' = LoadedBrightness
    /\ theme_pc' = "ready"
    /\ last_op' = "construct"
    /\ prev_value' = 0
    /\ passed' = 0
    /\ UNCHANGED << dark_detect, system_dark, mode_setting, chosen_setting,
                    brightness_setting, settings_open, slider_value,
                    mode_before, runVars, loaderVars, discoveryVars, uiVars,
                    recentVars, colorVars, outputVars >>

\* the system theme flips; the listener registered by __init__ calls
\* on_system_theme_change with the new state
SystemThemeChange ==
    /\ theme_pc = "ready"
    /\ system_dark' = ~system_dark
    /\ current_theme' =
         IF dark_detect
            /\ (IF mode_setting = Unset THEN "auto" ELSE mode_setting) = "auto"
         THEN Detected(system_dark') ELSE current_theme
    /\ last_op' = "system"
    /\ prev_value' = 0
    /\ passed' = 0
    /\ UNCHANGED << dark_detect, mode_setting, chosen_setting,
                    brightness_setting, theme_brightness, theme_pc,
                    settings_open, slider_value, mode_before, runVars,
                    loaderVars, discoveryVars, uiVars, recentVars, colorVars,
                    outputVars >>

\* set_theme_mode(mode), save_settings() at its end included
SetThemeModeEffect(mode) ==
    /\ IF mode = "auto" /\ dark_detect
       THEN /\ chosen_setting' = "auto"
            /\ current_theme' = DetectSystemTheme(current_theme)
       ELSE IF mode \in {"light", "dark"}
       THEN /\ chosen_setting' = mode
            /\ current_theme' = mode
       ELSE UNCHANGED << chosen_setting, current_theme >>
    /\ mode_setting' = SavedMode(chosen_setting', current_theme')
    /\ brightness_setting' = theme_brightness

\* the settings dialog's theme controls: on_theme_auto_changed,
\* on_light_theme_clicked, on_dark_theme_clicked
ChooseThemeMode ==
    /\ theme_pc = "ready"
    /\ settings_open
    /\ \E mode \in ThemeModes : SetThemeModeEffect(mode)
    /\ last_op' = "mode"
    /\ prev_value' = 0
    /\ passed' = 0
    /\ UNCHANGED << dark_detect, system_dark, theme_brightness, theme_pc,
                    settings_open, slider_value, mode_before, runVars,
                    loaderVars, discoveryVars, uiVars, recentVars, colorVars,
                    outputVars >>

\* toggle_theme, from the toolbar or with Ctrl+T
ToggleTheme ==
    /\ theme_pc = "ready"
    /\ ~settings_open
    /\ SetThemeModeEffect(IF current_theme = "dark" THEN "light" ELSE "dark")
    /\ last_op' = "toggle"
    /\ prev_value' = 0
    /\ passed' = 0
    /\ UNCHANGED << dark_detect, system_dark, theme_brightness, theme_pc,
                    settings_open, slider_value, mode_before, runVars,
                    loaderVars, discoveryVars, uiVars, recentVars, colorVars,
                    outputVars >>

\* SettingsDialog.__init__: BrightnessControl(self.theme_manager.brightness);
\* the slider takes the value before valueChanged is connected
OpenSettings ==
    /\ theme_pc = "ready"
    /\ ~settings_open
    /\ settings_open' = TRUE
    /\ slider_value' = Clamp(theme_brightness)
    /\ last_op' = "open"
    /\ prev_value' = 0
    /\ passed' = 0
    /\ UNCHANGED << dark_detect, system_dark, mode_setting, chosen_setting,
                    brightness_setting, current_theme, theme_brightness,
                    theme_pc, mode_before, runVars, loaderVars, discoveryVars,
                    uiVars, recentVars, colorVars, outputVars >>

\* the dialog is closed
CloseSettings ==
    /\ settings_open
    /\ settings_open' = FALSE
    /\ slider_value' = 0
    /\ last_op' = "close"
    /\ prev_value' = 0
    /\ passed' = 0
    /\ UNCHANGED << dark_detect, system_dark, mode_setting, chosen_setting,
                    brightness_setting, current_theme, theme_brightness,
                    theme_pc, mode_before, runVars, loaderVars, discoveryVars,
                    uiVars, recentVars, colorVars, outputVars >>

\* ThemeManager.set_brightness(value): self.brightness = value;
\* save_settings(); apply_theme()
SetBrightness(value) ==
    /\ theme_brightness' = value
    /\ mode_before' = StoredMode
    /\ mode_setting' = SavedMode(chosen_setting, current_theme)
    /\ brightness_setting' = value
    /\ passed' = value

\* self.slider.setValue(new_value): a changed value emits valueChanged, then
\* on_value_changed emits brightnessChanged, and on_brightness_changed of
\* the dialog calls theme_manager.set_brightness(value)
SliderSetValue(new_value) ==
    LET value == Clamp(new_value) IN
    /\ slider_value' = value
    /\ IF value # slider_value
       THEN SetBrightness(value)
       ELSE /\ passed' = 0
            /\ UNCHANGED << theme_brightness, mode_before, mode_setting,
                            brightness_setting >>

\* max(current_value - 10, self.slider.minimum())
DimValue(value, lowest) == Max(value - 10, lowest)

\* min(current_value + 10, self.slider.maximum())
BrightValue(value, highest) == Min(value + 10, highest)

\* on_dim_clicked
Dim ==
    /\ settings_open
    /\ SliderSetValue(DimValue(slider_value, MinBrightness))
    /\ last_op' = "dim"
    /\ prev_value' = slider_value
    /\ UNCHANGED << dark_detect, system_dark, chosen_setting, current_theme,
                    theme_pc, settings_open, runVars, loaderVars,
                    discoveryVars, uiVars, recentVars, colorVars,
                    outputVars >>

\* on_bright_clicked
Bright ==
    /\ settings_open
    /\ SliderSetValue(BrightValue(slider_value, MaxBrightness))
    /\ last_op' = "bright"
    /\ prev_value' = slider_value
    /\ UNCHANGED << dark_detect, system_dark, chosen_setting, current_theme,
                    theme_pc, settings_open, runVars, loaderVars,
                    discoveryVars, uiVars, recentVars, colorVars,
                    outputVars >>

\* on_reset_clicked: self.slider.setValue(100)
Reset ==
    /\ settings_open
    /\ SliderSetValue(100)
    /\ last_op' = "reset"
    /\ prev_value' = slider_value
    /\ UNCHANGED << dark_detect, system_dark, chosen_setting, current_theme,
                    theme_pc, settings_open, runVars, loaderVars,
                    discoveryVars, uiVars, recentVars, colorVars,
                    outputVars >>

\* the slider is dragged, or BrightnessControl.set_brightness(value) is
\* called with any value
MoveSlider ==
    /\ settings_open
    /\ \E value \in (MinBrightness - Overshoot)..(MaxBrightness + Overshoot) :
         SliderSetValue(value)
    /\ last_op' = "slide"
    /\ prev_value' = 0
    /\ UNCHANGED << dark_detect, system_dark, chosen_setting, current_theme,
                    theme_pc, settings_open, runVars, loaderVars,
                    discoveryVars, uiVars, recentVars, colorVars,
                    outputVars >>

\* the application is closed and started again; the settings stay, and the
\* system theme may have changed meanwhile
Restart ==
    /\ theme_pc = "ready"
    /\ theme_pc' = "new"
    /\ current_theme' = "dark"
    /\ theme_brightness' = 100
    /\ system_dark' \in BOOLEAN
    /\ settings_open' = FALSE
    /\ slider_value' = 0
    /\ last_op' = "none"
    /\ prev_value' = 0
    /\ passed' = 0
    /\ UNCHANGED << dark_detect, mode_setting, chosen_setting,
                    brightness_setting, mode_before, runVars, loaderVars,
                    discoveryVars, uiVars, recentVars, colorVars,
                    outputVars >>

NextTheme ==
    \/ Construct
    \/ SystemThemeChange
    \/ ChooseThemeMode
    \/ ToggleTheme
    \/ OpenSettings
    \/ CloseSettings
    \/ Dim
    \/ Bright
    \/ Reset
    \/ MoveSlider
    \/ Restart

SpecTheme == InitTheme /\ [][NextTheme]_vars

\* ===================================================================
\* Properties
\* ===================================================================
Stopped == stop_mark.called
SetupOk == setup_failure = "none"
CountOf(type, x) ==
    Cardinality({ n \in EventsOf(type) : events[n].img = x })
IsProgress(e) == e.type = "progress_update"
ProgressSeq == SelectSeq(events, IsProgress)
CeilDiv(n, b) == (n + b - 1) \div b
RECURSIVE Flatten(_)
Flatten(ss) == IF ss = << >> THEN << >> ELSE Head(ss) \o Flatten(Tail(ss))

\* C1: in every run (normal end, stop() at any point, setup exception)
\* finished is emitted exactly once -- never twice, and once the run has
\* ended -- and no progress_update, result_update or error follows it.
C1_FinishedExactlyOnceAndLast ==
    /\ Cardinality(EventsOf("finished")) <= 1
    /\ (pc = "done") <=> (EventsOf("finished") # {})
    /\ EventsOf("finished") # {} => events[Len(events)].type = "finished"

C1_Witness ==
    /\ pc = "done"
    /\ Stopped
    /\ variant = "ml"
    /\ \E x \in 1..total_files : task[x] = "fail"
    /\ EventsOf("progress_update") # {}

\* C2: when load_model_safely raises or the label file cannot be read, the
\* run emits exactly one error followed by finished, no progress_update, no
\* result_update, and submits no image to the pool.
C2_SetupFailureIsFatal ==
    setup_failure \in {"model", "labels"} =>
        /\ pc \in {"except", "done"}
        /\ pc = "except" => events = << >>
        /\ pc = "done" => events = << EvSetupError, EvFinished >>
        /\ batches = << >>
        /\ \A x \in 1..total_files : task[x] = "new"

C2_Witness ==
    /\ pc = "done"
    /\ setup_failure = "labels"
    /\ Len(events) = 2

\* C3: in a never-stopped run of classification.py a failing process_image
\* yields exactly one error for that image and does not abort the run: every
\* image is submitted and finishes, every successful one has exactly one
\* result_update, and the run ends with finished outside the except clause.
C3_ImageFailureNotFatal ==
    (variant = "classification" /\ SetupOk) =>
        /\ pc \notin {"except", "unwind"}
        /\ (pc = "done" /\ ~Stopped) =>
              /\ \A x \in 1..total_files :
                    /\ task[x] \in {"ok", "fail"}
                    /\ task[x] = "fail" =>
                          CountOf("error", x) = 1 /\ CountOf("result_update", x) = 0
                    /\ task[x] = "ok" =>
                          CountOf("result_update", x) = 1 /\ CountOf("error", x) = 0
              /\ CountOf("error", 0) = 0
              /\ events[Len(events)] = EvFinished

C3_Witness ==
    /\ variant = "classification"
    /\ pc = "done"
    /\ ~Stopped
    /\ \E x, y \in 1..total_files :
          /\ x < y
          /\ task[x] = "fail"
          /\ task[y] = "ok"
          /\ BatchNo(x) = BatchNo(y)

\* C4: (classification.py) when stop() is requested after batch k >= 1 has
\* completed and before anything of batch k+1 has been reported, no
\* result_update of batch k+1 or of a later batch is ever emitted, and
\* finished is emitted exactly once.
C4_NoResultAfterStopBetweenBatches ==
    (variant = "classification" /\ Stopped /\ stop_mark.done >= 1
        /\ ~stop_mark.reported) =>
        /\ \A n \in EventsOf("result_update") :
              BatchNo(events[n].img) <= stop_mark.done
        /\ Cardinality(EventsOf("finished")) <= 1
        /\ pc = "done" => Cardinality(EventsOf("finished")) = 1

\* C5: a never-stopped run over N images with batch size B forms exactly
\* ceil(N/B) batches of consecutive images, each of size B except possibly
\* the last, every image in exactly one batch.
C5_BatchesPartitionImages ==
    (pc = "done" /\ SetupOk /\ ~Stopped) =>
        /\ Len(batches) = CeilDiv(total_files, batch_size)
        /\ \A k \in 1..Len(batches) :
              /\ Len(batches[k]) \in 1..batch_size
              /\ k < Len(batches) => Len(batches[k]) = batch_size
        /\ Flatten(batches) = image_files

C5_Witness ==
    /\ pc = "done"
    /\ SetupOk
    /\ ~Stopped
    /\ total_files = 5
    /\ batch_size = 2
    /\ Len(batches) = 3
    /\ Len(batches[3]) = 1

\* C6: batch boundaries are a synchronization point: all submitted and
\* unfinished tasks belong to one batch, and none is left when the run
\* thread is about to form the next batch, also after a stop().
C6_OneBatchInFlight ==
    /\ \A x, y \in Unfinished : BatchNo(x) = BatchNo(y)
    /\ Unfinished \subseteq Range(batch_files)
    /\ pc \in {"loop_top", "submit", "emit_check", "emit"} => Unfinished = {}

C6_Witness ==
    /\ Len(batches) >= 2
    /\ Cardinality(Unfinished) >= 2
    /\ Cardinality(Executing) >= 1
    /\ \E x \in 1..total_files : task[x] = "fail"

\* C7: the number of executing process_image calls never exceeds
\* max_workers = min(cpu_count or 4, 8), which lies in 1..8, nor batch_size.
C7_BoundedConcurrency ==
    /\ max_workers \in 1..WorkerCap
    /\ Cardinality(Executing) <= max_workers
    /\ Cardinality(Executing) <= batch_size

C7_Witness ==
    /\ Cardinality(Executing) = max_workers
    /\ max_workers < batch_size
    /\ \E x \in 1..total_files : task[x] = "pending"

C9_ProgressCountsUp ==
    /\ \A k \in 1..Len(ProgressSeq) :
          /\ ProgressSeq[k].processed = k
          /\ ProgressSeq[k].total = total_files
          /\ 1 <= ProgressSeq[k].processed
          /\ ProgressSeq[k].processed <= ProgressSeq[k].total
    /\ (pc = "done" /\ SetupOk /\ ~Stopped /\ total_files >= 1
          /\ \A x \in 1..total_files : task[x] = "ok") =>
             /\ Len(ProgressSeq) = total_files
             /\ ProgressSeq[total_files].processed = total_files
             /\ ProgressSeq[total_files].total = total_files

C9_Witness ==
    /\ pc = "done"
    /\ ~Stopped
    /\ total_files >= 3
    /\ \A x \in 1..total_files : task[x] = "ok"
    /\ Len(ProgressSeq) = total_files

\* C10: failed images still advance the processed counter: the last
\* progress_update of a never-stopped run over N >= 1 images reports
\* processed = N, whatever images failed.
C10_FailedImagesStillCounted ==
    (pc = "done" /\ SetupOk /\ ~Stopped /\ total_files >= 1) =>
        /\ Len(ProgressSeq) >= 1
        /\ ProgressSeq[Len(ProgressSeq)].processed = total_files

\* C11: the fallback load (custom DepthwiseConv2D) is attempted only when
\* the first load raised an error containing both "DepthwiseConv2D" and
\* "groups"; after any other first-load error, one substring alone included,
\* exactly one load was attempted and that same error is what propagates.
C11_FallbackOnlyOnKnownDefect ==
    /\ \A n \in 1..Len(load_log) :
          load_log[n].custom =>
              ~load_first.ok /\ load_first.hasLayer /\ load_first.hasGroups
    /\ (load_pc \in {"returned", "raised"} /\ ~load_first.ok
          /\ ~(load_first.hasLayer /\ load_first.hasGroups)) =>
             /\ load_pc = "raised"
             /\ load_log = << LoadCall(FALSE, load_first) >>
             /\ load_error = load_first

C11_Witness ==
    /\ load_pc = "raised"
    /\ load_first.hasLayer
    /\ ~load_first.hasGroups
    /\ Len(load_log) = 1
    /\ pc = "done"

\* C12: after a first load failing with the recognised defect the loader
\* retries exactly once: a successful retry returns its model and the run
\* goes on without an error event; a failed retry propagates its error and
\* the run ends with one error event and finished; never more than two loads.
C12_RetryExactlyOnce ==
    /\ Len(load_log) <= 2
    /\ (load_pc \in {"returned", "raised"} /\ ~load_first.ok
          /\ load_first.hasLayer /\ load_first.hasGroups) =>
             /\ Len(load_log) = 2
             /\ load_log[2] = LoadCall(TRUE, load_retry)
             /\ load_retry.ok =>
                   /\ load_pc = "returned"
                   /\ load_error = NoOutcome
                   /\ pc \in {"load_model", "load_labels", "discover",
                              "except", "done"}
                   /\ setup_failure # "model"
                   /\ setup_failure = "none" => EventsOf("error") = {}
             /\ ~load_retry.ok =>
                   /\ load_pc = "raised"
                   /\ load_error = load_retry
                   /\ pc \in {"load_model", "except", "done"}
                   /\ pc = "done" => events = << EvSetupError, EvFinished >>

C12_Witness ==
    /\ IsKnownDefect(load_first)
    /\ ~load_retry.ok
    /\ load_retry.kind # load_first.kind
    /\ Len(load_log) = 2
    /\ pc = "done"

\* C13: the discovered list holds each matched path exactly once, also
\* when the direct and the recursive pattern, or two input folders, match
\* the same path; total_files is the number of distinct matched paths and
\* stays what it is once the glob loop is over.
C13_DiscoveryDeduplicates ==
    Discovered =>
        /\ Range(image_files) = Matched
        /\ \A f \in Matched :
              Cardinality({ n \in 1..Len(image_files) : image_files[n] = f }) = 1
        /\ total_files = Cardinality(Matched)
        /\ total_files = Len(image_files)

C13_Witness ==
    /\ pc = "loop_top"
    /\ input_folders = << "A", "A/sub" >>
    /\ total_files = 2
    /\ Len(globbed) = 5
    /\ \E f \in Matched : f.dir = "A/sub"

\* C16: an input folder that does not exist or cannot be read at discovery
\* time is a fatal setup error: the run goes to its except clause, emits
\* one error and then finished, and classifies no image.
C16_MissingFolderIsFatal ==
    (\E n \in 1..Len(input_folders) : input_folders[n] \in missing) =>
        /\ pc \notin {"make_dirs", "loop_top", "submit", "finish"}
        /\ pc = "done" => events = << EvSetupError, EvFinished >>

\* C14: a process_image call that is executing when stop() is called is
\* not interrupted: it returns or raises, finished is emitted only when no
\* worker is executing any more, and no result_update is emitted for it.
C14_RunningCallNotInterrupted ==
    /\ (\E n \in 1..Len(events) : events[n] = EvFinished) => Executing = {}
    /\ \A x \in stop_mark.executing :
          /\ task[x] \in {"running", "ok", "fail"}
          /\ pc = "done" => task[x] \in {"ok", "fail"}
          /\ \A n \in EventsOf("result_update") : events[n].img # x

C14_Witness ==
    /\ pc = "done"
    /\ Cardinality(stop_mark.executing) >= 2
    /\ \E x \in stop_mark.executing : task[x] = "ok"
    /\ \E x \in 1..total_files : task[x] = "cancelled"

Reported(x) ==
    /\ \E n \in EventsOf("result_update") : events[n].img = x
    /\ \E n \in EventsOf("progress_update") : events[n].img = x

C17_RunEndsAndWaitReturns ==
    /\ <>(pc = "done" /\ events # << >> /\ events[Len(events)] = EvFinished)
    /\ (ui_pc = "waiting") ~> (ui_pc = "loop" /\ pc = "done")

C17_Witness ==
    /\ cancel_done
    /\ ui_pc = "loop"
    /\ pc = "done"
    /\ stop_mark.executing # {}
    /\ handled < Len(events)

\* C18: in main.py the classification_finished handler runs once per run,
\* cancelled or not: never twice, and eventually once; from then on the
\* classify button is enabled, the cancel button disabled and
\* classification_thread is None.
C18_FinishedHandlerOnce ==
    /\ [](/\ finished_calls <= 1
          /\ finished_calls = 1 =>
                classify_enabled /\ ~cancel_enabled /\ ~thread_ref
          /\ (pc = "done" /\ handled = Len(events) /\ ui_pc = "loop") =>
                finished_calls = 1)
    /\ <>(finished_calls = 1)

C18_Witness ==
    /\ cancel_done
    /\ finished_calls = 1
    /\ handled = Len(events)
    /\ total_processed >= 1

\* C19: after cancel_classification in main.py, once every queued signal of
\* the cancelled run has been handled, the status bar shows the cancellation
\* message.
C19_CancelMessageStays ==
    (cancel_done /\ ui_pc = "loop" /\ pc = "done" /\ handled = Len(events)
       /\ dialogs = 0) => status = "canceled"

\* C20: after any sequence of add_to_recent_files calls the stored list
\* has at most 10 entries and no duplicate, starts with the non-empty path
\* added last, and lists its entries from the most to the least recently
\* added; a call with an empty path leaves the list as it was.
C20_RecentListShape ==
    /\ Len(recent_paths) <= RecentLimit
    /\ \A m, n \in 1..Len(recent_paths) :
          m < n => /\ recent_paths[m] # recent_paths[n]
                   /\ stamp[recent_paths[m]] > stamp[recent_paths[n]]
    /\ (\E q \in 1..MaxPaths : stamp[q] > 0) =>
          /\ recent_paths # << >>
          /\ \A q \in 1..MaxPaths : stamp[recent_paths[1]] >= stamp[q]
    /\ (calls > 0 /\ last_arg = EmptyPath) => recent_paths = prev_paths

\* a path that was in the full list is added again and moves to the front;
\* later a new path is added to the full list and the oldest entry drops out
C20_Witness ==
    /\ Len(prev_paths) = RecentLimit
    /\ last_arg # EmptyPath
    /\ last_arg \notin Range(prev_paths)
    /\ recent_paths = << last_arg >> \o SubSeq(prev_paths, 1, RecentLimit - 1)
    /\ stamp[recent_paths[2]] > 0

C22_ChannelFormula ==
    adjusted # << >> =>
        \A k \in 1..3 :
            LET c == Channels(hex_color)[k]
                out == Channels(adjusted)[k]
            IN /\ out = ExactChannel(c, brightness_pct)
               /\ out \in 0..ChannelMax
               /\ brightness_pct < 100 => out <= c
               /\ brightness_pct > 100 => out >= c

\* C23: each adjusted channel is monotone in the brightness: at p1 <= p2
\* the channel at p1 is <= the channel at p2, and none exceeds 255.
C23_MonotoneInBrightness ==
    adjusted # << >> =>
        \A p1 \in DOMAIN seen : \A k \in 1..3 :
            /\ p1 <= brightness_pct => seen[p1][k] <= seen[brightness_pct][k]
            /\ seen[p1][k] <= ChannelMax

C23_Witness ==
    /\ brightness_pct = MaxBrightness
    /\ adjusted # << >>
    /\ \E k \in 1..3 :
          /\ seen[MinBrightness][k] < seen[100][k]
          /\ seen[100][k] < seen[MaxBrightness][k]
    /\ \E k \in 1..3 : seen[101][k] = ChannelMax

\* C24: every class folder exists before the first image is submitted, only
\* the makedirs loop of run() creates folders, and whenever a worker is
\* inside process_image, or has saved an image, the folder of every class it
\* can predict exists
C24_FoldersBeforeWorkers ==
    /\ [](/\ batches # << >> => Range(labels) \subseteq out_dirs
          /\ \A x \in 1..total_files :
                task[x] = "running" => Range(labels) \subseteq out_dirs
          /\ \A s \in saved : s.class \in out_dirs)
    /\ [][out_dirs' # out_dirs => pc = "make_dirs"]_vars

\* a worker has saved an image into the folder of the second class
C24_Witness ==
    /\ Len(labels) = 2
    /\ \E s \in saved : s.class = labels[2]

\* C29: no two distinct source images are saved to the same output path, and
\* after a run that was not stopped there are as many output files as
\* result_update events
C29_OwnFilePerImage ==
    /\ \A s, t \in saved :
          s.img # t.img => OutputPath(s.img, s.class) # OutputPath(t.img, t.class)
    /\ pc = "done" /\ ~Stopped =>
          Cardinality(OutputFiles) = Cardinality(EventsOf("result_update"))

\* C25 (as stated): once the drain loop has seen the stop, no submission of
\* the batch starts process_image, and no further result is recorded
C25_NoStartAfterStopSeen ==
    [][variant = "classification" /\ pc \in {"cancel", "shutdown"} =>
         /\ \A x \in 1..total_files :
               ~(task[x] = "pending" /\ task'[x] = "running")
         /\ batch_results' = batch_results]_vars

\* C25 (amended): cancel() reaches a submission only if no worker has taken
\* it by then; once the cancel loop has ended no submission of the batch is
\* pending and none starts, and from the moment the stop was seen no further
\* result of the batch is recorded
C25_NoStartAfterCancelLoop ==
    /\ [](variant = "classification" /\ pc = "shutdown" =>
            \A x \in Range(batch_files) : task[x] # "pending")
    /\ [][variant = "classification" /\ pc = "shutdown" =>
            \A x \in 1..total_files :
              ~(task[x] = "pending" /\ task'[x] = "running")]_vars
    /\ [][variant = "classification" /\ pc \in {"cancel", "shutdown"} =>
            batch_results' = batch_results]_vars

\* the cancel loop has ended: one submission was cancelled, another one is
\* still executing
C25_Witness ==
    /\ variant = "classification"
    /\ pc = "shutdown"
    /\ \E x, y \in Range(batch_files) :
          task[x] = "cancelled" /\ task[y] = "running"

\* C26: in ml.py, once cancel_classification has returned, the handler
\* classification_finished has executed exactly once for the run, and the
\* queued finished signal does not make it execute again
C26_CancelHandlerOnce ==
    variant = "ml" /\ cancel_done /\ ui_pc = "loop" => finished_calls = 1

\* C27: with "light" or "dark" stored as the theme mode, a constructed
\* ThemeManager has current_theme equal to the stored mode, whatever the
\* system theme is
C27_ExplicitModeWins ==
    theme_pc = "ready" /\ mode_setting \in {"light", "dark"} =>
        current_theme = mode_setting

\* C28: every brightness value passed to the theme is within 50..150; Dim
\* leaves max(v - 10, 50), Bright min(v + 10, 150), Reset 100
C28_BrightnessInRange ==
    /\ passed # 0 => passed \in MinBrightness..MaxBrightness
    /\ settings_open => slider_value \in MinBrightness..MaxBrightness
    /\ last_op = "dim" => slider_value = Max(prev_value - 10, MinBrightness)
    /\ last_op = "bright" => slider_value = Min(prev_value + 10, MaxBrightness)
    /\ last_op = "reset" => slider_value = 100
    /\ last_op \in {"dim", "bright", "reset", "slide"} /\ passed # 0 =>
         passed = slider_value /\ theme_brightness = passed

\* Dim was clicked less than ten percent above the minimum
C28_Witness ==
    /\ last_op = "dim"
    /\ prev_value \in (MinBrightness + 1)..(MinBrightness + 9)
    /\ passed = MinBrightness

\* C30: after set_brightness the stored theme mode is what it was before,
\* and the stored brightness is the brightness in memory
C30_BrightnessKeepsMode ==
    passed # 0 =>
        /\ StoredMode = mode_before
        /\ brightness_setting = theme_brightness
        /\ theme_brightness = passed

====
